---- MODULE Spec2Model ----
(***************************************************************************)
(* State-machine model of the DarkWS client (src/index.ts): connection     *)
(* lifecycle with bounded reconnection, the open-wait poll behind every    *)
(* send, the request registry with per-request timeout timers, inbound     *)
(* frame decoding and routing, and the interceptor bus.                    *)
(*                                                                         *)
(* One step of the model is one task of the JavaScript event loop: a       *)
(* socket event handler, a timer callback or a public call, together with  *)
(* the promise reactions (microtasks) it triggers.                         *)
(***************************************************************************)
EXTENDS Integers, Sequences, FiniteSets, TLC

\* ---------------------------------------------------------------- bounds
MaxAttempts == 2      \* options.reconnectAttempts chosen by the caller
MaxReqs     == 2      \* request() calls per run
MaxRegs     == 2      \* intercept() calls per run of ConnSpec
MaxBusRegs  == 3      \* intercept() calls per run of BusSpec
MaxOps      == 2      \* request() + intercept() calls per run of Spec
MaxQueue    == 2      \* _send() calls waiting behind one open-wait

\* ------------------------------------------------------ program constants
DefaultRequestTimeout == 300000

\* ------------------------------------------------------------- vocabulary
Categories == {"open", "close", "error", "reconnect", "message", "broadcast"}

\* Subscriber functions are caller code: any invocation may return or raise.
\* They do not call back into the client while they are being dispatched.
Handlers == {"f", "g"}

\* Correlation keys generateKey() can return.  Math.random() gives no
\* freshness guarantee, so every call may return any key.
Keys == {"k1", "k2"}
generateKey == Keys

NoReq == 0
ReqIds == 1..MaxReqs

VARIABLES
    options,            \* this.options (fixed at construction)
    readyState,         \* this.socket.readyState of the current socket
    oldSockets,         \* replaced sockets that were not CLOSED when replaced
    reconnectAttempt,   \* this.reconnectAttempt
    reconnectTimers,    \* pending setTimeout(() => this.connect(), ...) timers
    interceptors,       \* this.interceptors: category -> sequence of handlers
    unsubs,             \* unsubscribe closures handed out, per (category, handler)
    requests,           \* this.requests: key -> owning request (NoReq = absent)
    reqs,               \* per request() call: key, phase, state of its promise
    queue,              \* _send() continuations waiting on connectingPromise
    connectingPromise,  \* this.connectingPromise !== null
    intervals,          \* active setInterval polls of waitForConnection
    timers,             \* armed request timeout timers, in arming order
    out                 \* what the last step did (event, calls, sends, settlements)

vars == <<options, readyState, oldSockets, reconnectAttempt, reconnectTimers,
          interceptors, unsubs, requests, reqs, queue, connectingPromise,
          intervals, timers, out>>

\* ------------------------------------------------------------ observation
Quiet(ev) == [event |-> ev, arg |-> "-", calls |-> <<>>, threw |-> FALSE,
              sent |-> <<>>, settled |-> <<>>, warned |-> FALSE,
              invalid |-> FALSE]

\* An exception left the event handler: a subscriber raised and no catch
\* block printed a warning for it.
Escaped(o) == o.threw /\ ~o.warned

\* --------------------------------------------------------- interceptor bus
\* callInterceptors(event, ...args): the for..of loop over the category's
\* array.  `raise` is the position of the first handler that raises (0: none
\* does); the exception ends the loop and leaves the call.
Stops(cat) == 0..Len(interceptors[cat])

callInterceptors(cat, arg, raise) ==
    LET group == interceptors[cat]
        n == IF raise = 0 THEN Len(group) ELSE raise
    IN [calls |-> [i \in 1..n |-> [cat |-> cat, h |-> group[i], arg |-> arg]],
        threw |-> raise # 0]

\* ---------------------------------------------------------------- options
Options == [reconnect : BOOLEAN,
            reconnectAttempts : {MaxAttempts},
            requestTimeout : {0, DefaultRequestTimeout}]

\* ------------------------------------------------------------------- Init
\* new DarkWS(options): fields at their initialisers, then connect().
Init ==
    /\ options \in Options
    /\ readyState = "CONNECTING"
    /\ oldSockets = 0
    /\ reconnectAttempt = 0
    /\ reconnectTimers = 0
    /\ interceptors = [c \in Categories |-> <<>>]
    /\ unsubs = [p \in Categories \X Handlers |-> 0]
    /\ requests = [k \in Keys |-> NoReq]
    /\ reqs = [r \in ReqIds |-> [phase |-> "new", key |-> "k1", future |-> "pending"]]
    /\ queue = <<>>
    /\ connectingPromise = FALSE
    /\ intervals = 0
    /\ timers = <<>>
    /\ out = Quiet("constructor")

\* ------------------------------------------------------------- connection
\* connect(): close the previous socket if there is one, create a new one.
connect ==
    /\ oldSockets' = oldSockets + (IF readyState = "CLOSED" THEN 0 ELSE 1)
    /\ readyState' = "CONNECTING"

\* socket.onopen
onopen ==
    /\ readyState = "CONNECTING"
    /\ readyState' = "OPEN"
    /\ \E raise \in Stops("open") :
         LET d == callInterceptors("open", "event", raise)
         IN out' = [Quiet("open") EXCEPT !.calls = d.calls, !.threw = d.threw]
    /\ UNCHANGED <<options, oldSockets, reconnectAttempt, reconnectTimers,
                   interceptors, unsubs, requests, reqs, queue,
                   connectingPromise, intervals, timers>>

\* The server starts the closing handshake: OPEN -> CLOSING, no handler runs.
closing ==
    /\ readyState = "OPEN"
    /\ readyState' = "CLOSING"
    /\ out' = Quiet("closing")
    /\ UNCHANGED <<options, oldSockets, reconnectAttempt, reconnectTimers,
                   interceptors, unsubs, requests, reqs, queue,
                   connectingPromise, intervals, timers>>

\* socket.onerror
onerror ==
    /\ readyState \in {"CONNECTING", "OPEN"}
    /\ \E raise \in Stops("error") :
         LET d == callInterceptors("error", "event", raise)
         IN out' = [Quiet("error") EXCEPT !.calls = d.calls, !.threw = d.threw]
    /\ UNCHANGED <<options, readyState, oldSockets, reconnectAttempt,
                   reconnectTimers, interceptors, unsubs, requests, reqs, queue,
                   connectingPromise, intervals, timers>>

\* Mutants of the retry decision: one stops a retry early, one forgets the
\* limit.
RetryStopsEarly(wasClean) ==
    /\ ~wasClean
    /\ options.reconnect
    /\ reconnectAttempt + 1 < options.reconnectAttempts

RetryWithoutLimit(wasClean) ==
    /\ ~wasClean
    /\ options.reconnect

\* The retry decision of socket.onclose
Retry(wasClean) ==
    /\ ~wasClean
    /\ options.reconnect
    /\ reconnectAttempt < options.reconnectAttempts

\* Mutant of the close handler: it gives up the requests that are in the
\* registry, rejecting them and emptying the registry.
oncloseAbandon(wasClean) ==
    /\ readyState \in {"CONNECTING", "OPEN", "CLOSING"}
    /\ readyState = "CONNECTING" => ~wasClean
    /\ readyState' = "CLOSED"
    /\ requests' = [k \in Keys |-> NoReq]
    /\ reqs' = [r \in ReqIds |->
                  IF \E k \in Keys : requests[k] = r /\ reqs[r].future = "pending"
                  THEN [reqs[r] EXCEPT !.future = "rejected"]
                  ELSE reqs[r]]
    /\ IF Retry(wasClean)
       THEN /\ reconnectTimers' = reconnectTimers + 1
            /\ reconnectAttempt' = reconnectAttempt + 1
       ELSE UNCHANGED <<reconnectTimers, reconnectAttempt>>
    /\ out' = Quiet("close")
    /\ UNCHANGED <<options, oldSockets, interceptors, unsubs, queue,
                   connectingPromise, intervals, timers>>

\* socket.onclose: the socket is CLOSED when the handler runs.  A connection
\* that never opened closes uncleanly.
onclose(wasClean) ==
    /\ readyState \in {"CONNECTING", "OPEN", "CLOSING"}
    /\ readyState = "CONNECTING" => ~wasClean
    /\ readyState' = "CLOSED"
    /\ IF Retry(wasClean)
       THEN /\ reconnectTimers' = reconnectTimers + 1
            /\ reconnectAttempt' = reconnectAttempt + 1
            /\ \E r1 \in Stops("reconnect"), r2 \in Stops("close") :
                 LET r == callInterceptors("reconnect", reconnectAttempt + 1, r1)
                     c == callInterceptors("close", wasClean, r2)
                 IN out' = [Quiet("close") EXCEPT
                              !.calls = IF r.threw THEN r.calls ELSE r.calls \o c.calls,
                              !.threw = IF r.threw THEN TRUE ELSE c.threw]
       ELSE /\ UNCHANGED <<reconnectTimers, reconnectAttempt>>
            /\ \E r2 \in Stops("close") :
                 LET c == callInterceptors("close", wasClean, r2)
                 IN out' = [Quiet("close") EXCEPT
                              !.calls = c.calls, !.threw = c.threw]
    /\ UNCHANGED <<options, oldSockets, interceptors, unsubs, requests, reqs,
                   queue, connectingPromise, intervals, timers>>

\* Mutant of the reconnect timer: it repeats like an interval instead of firing
\* once.
reconnectTimerRepeating ==
    /\ reconnectTimers > 0
    /\ reconnectTimers' = reconnectTimers
    /\ connect
    /\ out' = Quiet("connect")
    /\ UNCHANGED <<options, reconnectAttempt, interceptors, unsubs, requests,
                   reqs, queue, connectingPromise, intervals, timers>>

\* The reconnect timer fires: () => this.connect()
reconnectTimer ==
    /\ reconnectTimers > 0
    /\ reconnectTimers' = reconnectTimers - 1
    /\ connect
    /\ out' = Quiet("connect")
    /\ UNCHANGED <<options, reconnectAttempt, interceptors, unsubs, requests,
                   reqs, queue, connectingPromise, intervals, timers>>

\* ---------------------------------------------------- public: intercept
Issued == Cardinality({r \in ReqIds : reqs[r].phase # "new"})

RECURSIVE Sum(_, _)
Sum(f, S) == IF S = {} THEN 0
             ELSE LET x == CHOOSE x \in S : TRUE IN f[x] + Sum(f, S \ {x})

Registered == Sum(unsubs, Categories \X Handlers)

\* intercept(event, handler): group.push(handler); the returned closure keeps
\* (group, handler).  How often the caller subscribes is bounded by each
\* specification.
intercept(cat, h) ==
    /\ interceptors' = [interceptors EXCEPT ![cat] = Append(@, h)]
    /\ unsubs' = [unsubs EXCEPT ![<<cat, h>>] = @ + 1]
    /\ out' = [Quiet("intercept") EXCEPT !.arg = <<cat, h>>]
    /\ UNCHANGED <<options, readyState, oldSockets, reconnectAttempt,
                   reconnectTimers, requests, reqs, queue, connectingPromise,
                   intervals, timers>>

\* group.indexOf(handler): 0-based index of the first entry holding that
\* function, -1 when there is none.
indexOf(group, h) ==
    IF \E i \in 1..Len(group) : group[i] = h
    THEN (CHOOSE i \in 1..Len(group) :
             /\ group[i] = h
             /\ \A j \in 1..(i - 1) : group[j] # h) - 1
    ELSE -1

\* group.splice(start, 1): a negative start counts from the end of the array.
splice(group, start) ==
    LET n == Len(group)
        at == IF start < 0 THEN (IF n + start < 0 THEN 0 ELSE n + start) ELSE start
    IN IF at >= n THEN group
       ELSE SubSeq(group, 1, at) \o SubSeq(group, at + 2, n)

\* An unsubscribe action returned by intercept(cat, h):
\* () => group.splice(group.indexOf(handler), 1)
unsubscribe(cat, h) ==
    /\ unsubs[<<cat, h>>] > 0
    /\ interceptors' = [interceptors EXCEPT ![cat] = splice(@, indexOf(@, h))]
    /\ out' = [Quiet("unsubscribe") EXCEPT !.arg = <<cat, h>>]
    /\ UNCHANGED <<options, readyState, oldSockets, reconnectAttempt,
                   reconnectTimers, unsubs, requests, reqs, queue,
                   connectingPromise, intervals, timers>>

\* ------------------------------------------------------ sending and waiting
\* Mutant of the open-wait: every caller gets a promise and a poll of its own.
waitForConnectionOwnPoll(entry) ==
    /\ Len(queue) < MaxQueue
    /\ queue' = Append(queue, entry)
    /\ connectingPromise' = TRUE
    /\ intervals' = intervals + 1

\* waitForConnection(): this.connectingPromise ??= new Promise(... setInterval ...)
\* One more continuation waits on the shared promise; a poll is started only
\* when no promise is pending.
waitForConnection(entry) ==
    /\ Len(queue) < MaxQueue
    /\ queue' = Append(queue, entry)
    /\ connectingPromise' = TRUE
    /\ intervals' = IF connectingPromise THEN intervals ELSE intervals + 1

\* _send(data): waitForConnection().then(() => this.socket?.send(data))
sendRaw(entry) == waitForConnection(entry)

\* send(data): this._send(`@|${JSON.stringify(data)}`)
send ==
    /\ sendRaw([kind |-> "send", req |-> NoReq])
    /\ out' = Quiet("send")
    /\ UNCHANGED <<options, readyState, oldSockets, reconnectAttempt,
                   reconnectTimers, interceptors, unsubs, requests, reqs, timers>>

\* request(action, data): the executor draws the key and queues the frame; the
\* registry entry and the timer are created only after the frame was sent.
request(key) ==
    /\ Issued < MaxReqs
    /\ Registered + Issued < MaxOps
    /\ LET r == Issued + 1
       IN /\ reqs' = [reqs EXCEPT ![r] = [phase |-> "waiting", key |-> key,
                                          future |-> "pending"]]
          /\ sendRaw([kind |-> "request", req |-> r])
          /\ out' = Quiet("request")
    /\ UNCHANGED <<options, readyState, oldSockets, reconnectAttempt,
                   reconnectTimers, interceptors, unsubs, requests, timers>>

\* The .then() of request(): this.requests[key] = {resolve, reject}, in the
\* order the waiting requests were issued; a later entry under the same key
\* replaces the earlier one.
RECURSIVE Registry(_, _)
Registry(q, reg) ==
    IF q = <<>> THEN reg
    ELSE LET e == Head(q)
         IN Registry(Tail(q),
                     IF e.kind = "request"
                     THEN [reg EXCEPT ![reqs[e.req].key] = e.req]
                     ELSE reg)

\* setTimeout(..., requestTimeout) for each request just sent, when the option
\* is nonzero.
RECURSIVE Armed(_)
Armed(q) ==
    IF q = <<>> THEN <<>>
    ELSE LET e == Head(q)
         IN (IF e.kind = "request" /\ options.requestTimeout # 0
             THEN <<e.req>> ELSE <<>>) \o Armed(Tail(q))

\* Mutant of the poll: the tick releases the waiters whatever the socket's state.
pollTickAnyState ==
    /\ intervals > 0
    /\ intervals' = intervals - 1
    /\ connectingPromise' = FALSE
    /\ queue' = <<>>
    /\ requests' = Registry(queue, requests)
    /\ timers' = timers \o Armed(queue)
    /\ reqs' = [r \in ReqIds |->
                  IF \E i \in 1..Len(queue) : queue[i].kind = "request" /\ queue[i].req = r
                  THEN [reqs[r] EXCEPT !.phase = "sent"]
                  ELSE reqs[r]]
    /\ out' = [Quiet("poll") EXCEPT !.sent = queue]
    /\ UNCHANGED <<options, readyState, oldSockets, reconnectAttempt,
                   reconnectTimers, interceptors, unsubs>>

\* A tick of the setInterval poll that finds the socket OPEN: clearInterval,
\* resolve, connectingPromise = null; then the waiting continuations run: every
\* frame is handed to socket.send, then every request registers itself.
pollTick ==
    /\ intervals > 0
    /\ readyState = "OPEN"
    /\ intervals' = intervals - 1
    /\ connectingPromise' = FALSE
    /\ queue' = <<>>
    /\ requests' = Registry(queue, requests)
    /\ timers' = timers \o Armed(queue)
    /\ reqs' = [r \in ReqIds |->
                  IF \E i \in 1..Len(queue) : queue[i].kind = "request" /\ queue[i].req = r
                  THEN [reqs[r] EXCEPT !.phase = "sent"]
                  ELSE reqs[r]]
    /\ out' = [Quiet("poll") EXCEPT !.sent = queue]
    /\ UNCHANGED <<options, readyState, oldSockets, reconnectAttempt,
                   reconnectTimers, interceptors, unsubs>>

\* Promise semantics: settling a promise that is already settled does nothing.
Settle(rs, r, how) ==
    IF rs[r].future = "pending" THEN [rs EXCEPT ![r].future = how] ELSE rs

Without(seq, r) == SelectSeq(seq, LAMBDA x : x # r)

\* The request timer fires (timers of equal delay fire in the order they were
\* set): delete this.requests[key]; reject({code: 'timeout', ...})
timeout ==
    /\ timers # <<>>
    /\ LET r == Head(timers)
       IN /\ requests' = [requests EXCEPT ![reqs[r].key] = NoReq]
          /\ reqs' = Settle(reqs, r, "rejected")
          /\ out' = [Quiet("timeout") EXCEPT
                       !.settled = IF reqs[r].future = "pending"
                                   THEN <<[req |-> r, how |-> "rejected",
                                           value |-> "timeout"]>>
                                   ELSE <<>>]
    /\ timers' = Tail(timers)
    /\ UNCHANGED <<options, readyState, oldSockets, reconnectAttempt,
                   reconnectTimers, interceptors, unsubs, queue,
                   connectingPromise, intervals>>

\* ------------------------------------------------------- inbound decoding
\* An inbound text is a sequence of chunks; the chunk "|" is the delimiter
\* character, every other chunk is a run of characters without "|".
Bar == "|"

\* Texts that are JSON, with the value JSON.parse gives for each.  The last
\* one is the JSON string "a|b": it holds the delimiter character.
JsonTexts == { <<"{a:1}">>, <<"{error:{code:E}}">>, <<"null">>, <<"7">>,
               <<"'a", Bar, "b'">> }

JSONparse(t) ==
    CASE t = <<"{a:1}">>            -> "object"
      [] t = <<"{error:{code:E}}">> -> "errorObject"
      [] t = <<"null">>             -> "null"
      [] t = <<"7">>                -> "number"
      [] t = <<"'a", Bar, "b'">>    -> "string"
      [] OTHER                      -> "SyntaxError"

\* text.split('|'): the pieces between delimiters
RECURSIVE splitAll(_, _)
splitAll(t, cur) ==
    IF t = <<>> THEN <<cur>>
    ELSE IF Head(t) = Bar THEN <<cur>> \o splitAll(Tail(t), <<>>)
    ELSE splitAll(Tail(t), Append(cur, Head(t)))

\* text.split('|', limit): the first `limit` pieces; the rest is dropped.
split(t, limit) ==
    LET all == splitAll(t, <<>>)
    IN SubSeq(all, 1, IF Len(all) < limit THEN Len(all) ELSE limit)

\* Mutant of the decoding: a payload that does not parse is passed on as an
\* object instead of raising.
decodeUnchecked(t) ==
    LET parts == split(t, 2)
        data == IF Len(parts) < 2 THEN "SyntaxError" ELSE JSONparse(parts[2])
    IN [key  |-> parts[1],
        data |-> IF data = "SyntaxError" THEN "object" ELSE data]

\* const [key = '@', _data] = event.data.split('|', 2); JSON.parse(_data)
\* (JSON.parse(undefined) is a SyntaxError)
decode(t) ==
    LET parts == split(t, 2)
    IN [key  |-> parts[1],
        data |-> IF Len(parts) < 2 THEN "SyntaxError" ELSE JSONparse(parts[2])]

InboundTexts ==
    {<<"ping">>}
    \cup {<<k, Bar>> \o j : k \in Keys \cup {"@"}, j \in JsonTexts}
    \cup {<<k>> : k \in Keys \cup {"@"}}
    \cup {<<k, Bar, "oops">> : k \in Keys \cup {"@"}}
    \cup {<<Bar, "{a:1}">>}

\* data.error?.code is truthy; reading .error of null is a TypeError
Classify(data) ==
    CASE data = "null"        -> "TypeError"
      [] data = "errorObject" -> "reject"
      [] OTHER                -> "resolve"

\* socket.onmessage
onmessage(text) ==
    /\ readyState = "OPEN"
    /\ IF text = <<"ping">>
       THEN /\ sendRaw([kind |-> "pong", req |-> NoReq])
            /\ out' = Quiet("message")
            /\ UNCHANGED <<requests, reqs, timers>>
       ELSE LET m == decode(text)
                key == IF Len(m.key) = 1 THEN m.key[1] ELSE ""
                r == IF key \in Keys THEN requests[key] ELSE NoReq
            IN
            IF m.data = "SyntaxError"
            THEN /\ out' = [Quiet("message") EXCEPT !.warned = TRUE,
                                                    !.invalid = TRUE]
                 /\ UNCHANGED <<requests, reqs, timers, queue,
                                connectingPromise, intervals>>
            ELSE IF key = "@"
            THEN /\ \E raise \in Stops("broadcast") :
                      LET d == callInterceptors("broadcast", m.data, raise)
                      IN out' = [Quiet("message") EXCEPT
                                   !.calls = d.calls, !.threw = d.threw,
                                   !.warned = d.threw]
                 /\ UNCHANGED <<requests, reqs, timers, queue,
                                connectingPromise, intervals>>
            ELSE IF r # NoReq /\ Classify(m.data) = "TypeError"
            THEN /\ out' = [Quiet("message") EXCEPT !.warned = TRUE]
                 /\ UNCHANGED <<requests, reqs, timers, queue,
                                connectingPromise, intervals>>
            ELSE /\ IF r = NoReq
                    THEN UNCHANGED <<requests, reqs, timers>>
                    ELSE /\ requests' = [requests EXCEPT ![key] = NoReq]
                         /\ IF Classify(m.data) = "reject"
                            THEN /\ reqs' = Settle(reqs, r, "rejected")
                                 /\ UNCHANGED timers
                            ELSE /\ reqs' = Settle(reqs, r, "resolved")
                                 /\ timers' = Without(timers, r)
                 /\ \E raise \in Stops("message") :
                      LET d == callInterceptors("message", m.data, raise)
                      IN out' = [Quiet("message") EXCEPT
                                   !.calls = d.calls,
                                   !.threw = d.threw,
                                   !.warned = d.threw,
                                   !.settled =
                                      IF r # NoReq /\ reqs[r].future = "pending"
                                      THEN <<[req |-> r,
                                              how |-> IF Classify(m.data) = "reject"
                                                      THEN "rejected" ELSE "resolved",
                                              value |-> m.data]>>
                                      ELSE <<>>]
                 /\ UNCHANGED <<queue, connectingPromise, intervals>>
    /\ UNCHANGED <<options, readyState, oldSockets, reconnectAttempt,
                   reconnectTimers, interceptors, unsubs>>

\* ---------------------------------------------------------- specifications
\* Socket events, the reconnect timer and the interceptor bus.
NextConn ==
    \/ onopen
    \/ closing
    \/ onerror
    \/ \E wasClean \in BOOLEAN : onclose(wasClean)
    \/ reconnectTimer
    \/ (Registered < MaxRegs
          /\ \E cat \in Categories, h \in Handlers : intercept(cat, h))
    \/ \E cat \in Categories, h \in Handlers : unsubscribe(cat, h)

\* Requests, the open-wait poll, request timers and inbound frames.
NextReq ==
    \/ \E key \in generateKey : request(key)
    \/ pollTick
    \/ timeout
    \/ \E text \in InboundTexts : onmessage(text)

\* The categories an inbound frame is dispatched to.
FrameCategories == {"message", "broadcast"}

\* The client for callers that make at most MaxOps calls of request() and
\* intercept() in all and subscribe to the frame categories; subscriptions to
\* the connection categories are explored by ConnSpec and BusSpec, send() by
\* SendSpec.
Next ==
    \/ onopen
    \/ closing
    \/ onerror
    \/ \E wasClean \in BOOLEAN : onclose(wasClean)
    \/ reconnectTimer
    \/ (Registered + Issued < MaxOps
          /\ \E cat \in FrameCategories, h \in Handlers : intercept(cat, h))
    \/ \E cat \in Categories, h \in Handlers : unsubscribe(cat, h)
    \/ NextReq

Spec == Init /\ [][Next]_vars

\* A client whose caller issues no request and whose server sends no frame,
\* with requestTimeout left at its default.
InitConn == Init /\ options.requestTimeout = DefaultRequestTimeout

ConnSpec == InitConn /\ [][NextConn]_vars

\* The same client with a caller that subscribes more often.
NextBus ==
    \/ onopen
    \/ closing
    \/ onerror
    \/ \E wasClean \in BOOLEAN : onclose(wasClean)
    \/ reconnectTimer
    \/ (Registered < MaxBusRegs
          /\ \E cat \in Categories, h \in Handlers : intercept(cat, h))
    \/ \E cat \in Categories, h \in Handlers : unsubscribe(cat, h)

BusSpec == InitConn /\ [][NextBus]_vars

\* The sending side: send(), request() and ping replies going through the
\* open-wait while the socket opens, closes and reconnects; no subscriber.
NextSend ==
    \/ onopen
    \/ closing
    \/ onerror
    \/ \E wasClean \in BOOLEAN : onclose(wasClean)
    \/ reconnectTimer
    \/ send
    \/ \E key \in generateKey : request(key)
    \/ pollTick
    \/ timeout
    \/ onmessage(<<"ping">>)

SendSpec == Init /\ [][NextSend]_vars

\* A socket that is connecting ends up open or closed.
settleConnecting ==
    /\ readyState = "CONNECTING"
    /\ onopen \/ onclose(FALSE)

\* Timers and the poll keep firing, and a connection attempt ends.
FairSpec ==
    /\ Spec
    /\ WF_vars(pollTick)
    /\ WF_vars(timeout)
    /\ WF_vars(reconnectTimer)
    /\ WF_vars(settleConnecting)

\* ====================================================================
\* Claims
\* ====================================================================
\* What a dispatch of a whole category looks like: every handler of the
\* category once, in registration order, with the given argument.
AllCalls(cat, arg) ==
    [i \in 1..Len(interceptors[cat]) |->
        [cat |-> cat, h |-> interceptors[cat][i], arg |-> arg]]

IsPrefix(a, b) == Len(a) <= Len(b) /\ a = SubSeq(b, 1, Len(a))

CanRetry == options.reconnect /\ reconnectAttempt < options.reconnectAttempts

\* C1 as stated: an unclean close handled while reconnect is enabled and the
\* counter is below the limit schedules exactly one connect(), adds one to the
\* counter, fires every `reconnect` interceptor once with the new attempt
\* number and then every `close` interceptor for the same event.
C1_AsStated ==
    [][(onclose(FALSE) /\ CanRetry) =>
          /\ reconnectTimers' = reconnectTimers + 1
          /\ reconnectAttempt' = reconnectAttempt + 1
          /\ out'.calls = AllCalls("reconnect", reconnectAttempt + 1)
                            \o AllCalls("close", FALSE)]_vars

\* C1 amended: the timer and the counter as stated; the `reconnect`
\* interceptors and then the `close` interceptors are invoked in that order,
\* up to the first one that raises; when none raises every one of them fires
\* exactly once.
C1_Amended ==
    [][(onclose(FALSE) /\ CanRetry) =>
          /\ reconnectTimers' = reconnectTimers + 1
          /\ reconnectAttempt' = reconnectAttempt + 1
          /\ LET all == AllCalls("reconnect", reconnectAttempt + 1)
                         \o AllCalls("close", FALSE)
             IN IF out'.threw
                THEN out'.calls # <<>> /\ IsPrefix(out'.calls, all)
                ELSE out'.calls = all]_vars

\* An unclean close was retried and fired `reconnect` with attempt 1, then `close`.
C1_Witness ==
    /\ out.event = "close" /\ ~out.threw
    /\ reconnectTimers = 1 /\ reconnectAttempt = 1
    /\ Len(out.calls) = 2
    /\ out.calls[1].cat = "reconnect" /\ out.calls[1].arg = 1
    /\ out.calls[2].cat = "close" /\ out.calls[2].arg = FALSE

\* C2 as stated: the counter is zero right after every open event, and the
\* first unclean close of a socket that had opened fires `reconnect` with
\* attempt number 1.
C2_AsStated ==
    [][/\ onopen => reconnectAttempt' = 0
       /\ (onclose(FALSE) /\ readyState \in {"OPEN", "CLOSING"} /\ CanRetry)
             => reconnectAttempt' = 1]_vars

\* C3: a close that is clean, or handled with reconnect disabled, or with the
\* counter at the limit, schedules no connect(), leaves the counter alone and
\* fires no `reconnect` interceptor; the counter never exceeds the limit.
C3_NoRetry ==
    /\ [](reconnectAttempt <= options.reconnectAttempts)
    /\ [][\A wasClean \in BOOLEAN :
            (onclose(wasClean) /\ (wasClean \/ ~CanRetry)) =>
                /\ reconnectTimers' = reconnectTimers
                /\ reconnectAttempt' = reconnectAttempt
                /\ \A i \in 1..Len(out'.calls) : out'.calls[i].cat # "reconnect"]_vars

\* An unclean close arrived with the counter at the limit and a `reconnect`
\* interceptor subscribed: only `close` fired and no timer was set.
C3_Witness ==
    /\ out.event = "close" /\ readyState = "CLOSED"
    /\ options.reconnect /\ reconnectAttempt = options.reconnectAttempts
    /\ reconnectTimers = 0
    /\ Len(interceptors["reconnect"]) > 0
    /\ Len(out.calls) = 1
    /\ out.calls[1].cat = "close" /\ out.calls[1].arg = FALSE

\* A request is outstanding once it is sent and until its future settles; a
\* live collision is two outstanding requests with one key.
Outstanding(r) == reqs[r].phase = "sent" /\ reqs[r].future = "pending"

NoLiveCollision ==
    \A r1, r2 \in ReqIds :
        (r1 # r2 /\ Outstanding(r1) /\ Outstanding(r2)) => reqs[r1].key # reqs[r2].key

\* C4 as stated: a frame `k|<json>` with a payload that carries no error code,
\* arriving while k is in the registry, resolves the request the entry belongs
\* to with the decoded payload, removes the entry, and changes no other
\* request's entry or future.
C4_AsStated ==
    [][\A k \in Keys, j \in JsonTexts :
          (/\ onmessage(<<k, Bar>> \o j)
           /\ requests[k] # NoReq
           /\ JSONparse(j) # "errorObject") =>
              LET r == requests[k]
              IN /\ reqs'[r].future = "resolved"
                 /\ out'.settled = <<[req |-> r, how |-> "resolved",
                                      value |-> JSONparse(j)]>>
                 /\ requests'[k] = NoReq
                 /\ \A r2 \in ReqIds \ {r} : reqs'[r2] = reqs[r2]
                 /\ \A k2 \in Keys \ {k} : requests'[k2] = requests[k2]]_vars

\* C5 as stated: with a nonzero requestTimeout every request issued through
\* request() is eventually settled, by its response or else by a rejection with
\* code 'timeout'; the timer of a pending request rejects it and removes its
\* entry; a frame for a key that is not in the registry settles nothing.
C5_AsStated ==
    /\ [][(timeout /\ reqs[Head(timers)].future = "pending") =>
            /\ reqs'[Head(timers)].future = "rejected"
            /\ requests'[reqs[Head(timers)].key] = NoReq]_vars
    /\ [][\A k \in Keys, j \in JsonTexts :
            (onmessage(<<k, Bar>> \o j) /\ requests[k] = NoReq) =>
                (reqs' = reqs /\ out'.settled = <<>>)]_vars
    /\ \A r \in ReqIds :
          (reqs[r].phase # "new" /\ options.requestTimeout # 0)
              ~> (reqs[r].future # "pending")

\* C6 as stated, for steps between states without a live collision: every key
\* in the registry belongs to exactly one outstanding request, a settled future
\* is never settled again, and a timer that fires for an already settled
\* request changes nothing.
C6_AsStated ==
    [][(NoLiveCollision /\ NoLiveCollision') =>
          /\ \A k \in Keys :
                requests'[k] # NoReq =>
                   Cardinality({r \in ReqIds : Outstanding(r)' /\ reqs'[r].key = k}) = 1
          /\ \A r \in ReqIds :
                reqs[r].future # "pending" => reqs'[r].future = reqs[r].future
          /\ (timeout /\ reqs[Head(timers)].future # "pending") =>
                (requests' = requests /\ reqs' = reqs)]_vars

\* C7 as stated, for states without a live collision: a request timer that
\* fires changes no other request's future, no registry entry that belongs to
\* another request, and not the connection state.
C7_AsStated ==
    [][(timeout /\ NoLiveCollision) =>
          LET r == Head(timers)
          IN /\ \A r2 \in ReqIds \ {r} : reqs'[r2] = reqs[r2]
             /\ \A k \in Keys :
                   requests[k] \notin {NoReq, r} => requests'[k] = requests[k]
             /\ readyState' = readyState]_vars

\* C8 as stated: handling `ping` invokes no interceptor and changes no registry
\* entry, and the pong it asks for is handed to the transport.
PongWaiting == \E i \in 1..Len(queue) : queue[i].kind = "pong"
PongHanded == \E i \in 1..Len(out.sent) : out.sent[i].kind = "pong"

C8_AsStated ==
    /\ [][onmessage(<<"ping">>) =>
            /\ out'.calls = <<>>
            /\ requests' = requests /\ reqs' = reqs
            /\ queue' = Append(queue, [kind |-> "pong", req |-> NoReq])]_vars
    /\ PongWaiting ~> PongHanded

\* C9 as stated, for dispatches in which no handler raises: a well-formed frame
\* with key `@` invokes every `broadcast` handler once, in subscription order,
\* with the decoded payload, and settles no request.
C9_AsStated ==
    [][\A j \in JsonTexts :
          (onmessage(<<"@", Bar>> \o j) /\ ~out'.threw) =>
              /\ out'.calls = AllCalls("broadcast", JSONparse(j))
              /\ out'.settled = <<>>
              /\ requests' = requests /\ reqs' = reqs]_vars

\* C10 as stated, for calls made while h is still subscribed: the action
\* returned by intercept(cat, h) leaves the other categories alone and removes
\* one registration of h and nothing else; called right after the intercept()
\* that returned it, it removes that registration, which is the last entry.
Front(seq) == SubSeq(seq, 1, Len(seq) - 1)

OneRemoved(before, after, h) ==
    \E i \in 1..Len(before) :
        /\ before[i] = h
        /\ after = SubSeq(before, 1, i - 1) \o SubSeq(before, i + 1, Len(before))

C10_AsStated ==
    [][\A cat \in Categories, h \in Handlers :
          (unsubscribe(cat, h) /\ indexOf(interceptors[cat], h) >= 0) =>
              /\ \A c \in Categories \ {cat} : interceptors'[c] = interceptors[c]
              /\ OneRemoved(interceptors[cat], interceptors'[cat], h)
              /\ (out.event = "intercept" /\ out.arg = <<cat, h>>) =>
                    interceptors'[cat] = Front(interceptors[cat])]_vars

\* C11 as stated: calling an unsubscribe action again leaves every interceptor
\* collection unchanged.  The step is the call of the only action handed out
\* for (cat, h), right after a call of that same action.
C11_AsStated ==
    [][\A cat \in Categories, h \in Handlers :
          (/\ unsubscribe(cat, h)
           /\ unsubs[<<cat, h>>] = 1
           /\ out.event = "unsubscribe" /\ out.arg = <<cat, h>>) =>
              interceptors' = interceptors]_vars

\* C12: a frame whose payload is missing (`k`) or is not JSON (`k|oops`) invokes
\* no interceptor, lets no exception out of the message handler, and leaves the
\* connection state, the reconnect counter, the registry, every request and
\* every request timer unchanged.
Malformed == {<<k>> : k \in Keys \cup {"@"}}
             \cup {<<k, Bar, "oops">> : k \in Keys \cup {"@"}}

PlainJson == {j \in JsonTexts : \A i \in 1..Len(j) : j[i] # Bar}

C13_AsStated ==
    [][\A k \in Keys, j \in PlainJson :
          (onmessage(<<k, Bar>> \o j) /\ requests[k] # NoReq) =>
              LET r == requests[k]
                  how == IF JSONparse(j) = "errorObject"
                         THEN "rejected" ELSE "resolved"
              IN /\ reqs[r].future = "pending" => reqs'[r].future = how
                 /\ out'.settled = IF reqs[r].future = "pending"
                                   THEN <<[req |-> r, how |-> how,
                                           value |-> JSONparse(j)]>>
                                   ELSE <<>>
                 /\ requests'[k] = NoReq]_vars

\* C14 as stated: after an inbound response has settled a request, resolved or
\* rejected, no timeout timer of that request is left armed.
C14_AsStated ==
    [][\A k \in Keys, j \in PlainJson :
          (/\ onmessage(<<k, Bar>> \o j)
           /\ requests[k] # NoReq
           /\ reqs[requests[k]].future = "pending"
           /\ reqs'[requests[k]].future # "pending") =>
              \A i \in 1..Len(timers') : timers'[i] # requests[k]]_vars

\* C15: at most one poll is active, and one is active exactly while the shared
\* promise is pending; a call that starts waiting joins the pending wait or,
\* when there is none, starts a fresh poll; the poll is cancelled only by the
\* tick that sees the socket OPEN, which releases all waiters and clears the
\* shared promise.
C15_SharedWait ==
    /\ [](/\ intervals <= 1
          /\ (intervals = 1) <=> connectingPromise
          /\ (queue # <<>>) <=> connectingPromise)
    /\ [][(queue' # queue /\ queue' # <<>>) =>
            /\ \E i \in 1..Len(queue') : queue' = Append(queue, queue'[i])
            /\ connectingPromise' /\ intervals' = 1]_vars
    /\ [][(intervals' < intervals \/ (connectingPromise /\ ~connectingPromise')) =>
            /\ pollTick
            /\ readyState = "OPEN"
            /\ intervals' = 0 /\ ~connectingPromise'
            /\ queue' = <<>> /\ out'.sent = queue]_vars

\* After a reconnect, and after an earlier wait had released a request, two
\* callers wait behind one poll.
C15_Witness ==
    /\ reconnectAttempt >= 1
    /\ \E r \in ReqIds : reqs[r].phase = "sent"
    /\ Len(queue) = 2 /\ intervals = 1 /\ connectingPromise

\* C19: frames are handed to socket.send only by a step that starts and ends
\* with the current socket OPEN; waiting frames are kept in the order of their
\* calls, none is dropped, and they are handed over in that order.
C19_SendWhileOpen ==
    /\ [][out'.sent # <<>> =>
            /\ readyState = "OPEN" /\ readyState' = "OPEN"
            /\ out'.sent = queue]_vars
    /\ [][queue' # queue =>
            \/ queue' = <<>> /\ out'.sent = queue
            \/ \E i \in 1..Len(queue') : queue' = Append(queue, queue'[i])]_vars

\* After a reconnect a request frame and then a pong were handed to the open
\* socket by one tick, in the order of their calls.
C19_Witness ==
    /\ out.event = "poll" /\ readyState = "OPEN"
    /\ reconnectAttempt >= 1
    /\ Len(out.sent) = 2
    /\ out.sent[1].kind = "request" /\ out.sent[2].kind = "pong"

\* C16: open, error and close events, the closing handshake and the reconnect
\* timer leave the registry, every request, every request timer and the
\* waiting frames unchanged and send nothing; a pending request is settled
\* only by an inbound frame or by a request timer.
C16_RegistryUntouched ==
    /\ [][(\/ onopen \/ closing \/ onerror \/ reconnectTimer
           \/ \E wasClean \in BOOLEAN : onclose(wasClean)) =>
              /\ requests' = requests /\ reqs' = reqs /\ timers' = timers
              /\ queue' = queue
              /\ out'.settled = <<>> /\ out'.sent = <<>>]_vars
    /\ [][(\E r \in ReqIds : reqs[r].future = "pending" /\ reqs'[r].future # "pending") =>
              (timeout \/ \E text \in InboundTexts : onmessage(text))]_vars

\* An unclean close was retried while a request was in the registry, still
\* pending, with its timer armed.
C16_Witness ==
    /\ out.event = "close" /\ readyState = "CLOSED" /\ reconnectTimers = 1
    /\ \E r \in ReqIds :
          /\ Outstanding(r) /\ requests[reqs[r].key] = r
          /\ \E i \in 1..Len(timers) : timers[i] = r

\* C17 as stated: for every text `<key>|<json>`, also when the JSON text holds
\* the delimiter character, the decoded key is the text before the first
\* delimiter and the decoded payload is the parse of all that follows it; a
\* text with nothing before the delimiter is dispatched as a broadcast.
C17_AsStated ==
    [][/\ \A k \in Keys \cup {"@"}, j \in JsonTexts :
            onmessage(<<k, Bar>> \o j) =>
                /\ decode(<<k, Bar>> \o j).key = <<k>>
                /\ decode(<<k, Bar>> \o j).data = JSONparse(j)
       /\ \A j \in PlainJson :
            (onmessage(<<Bar>> \o j) /\ ~out'.threw) =>
                out'.calls = AllCalls("broadcast", JSONparse(j))]_vars

\* C18 as stated: whenever a subscribed handler raises while it is invoked, for
\* any category, the exception leaves the event handler that dispatched it.
C18_AsStated ==
    [][out'.threw => Escaped(out')]_vars

\* C20: no replaced socket is left that is not CLOSED, at most one reconnect
\* timer is pending, and only while the current socket is CLOSED; after the
\* constructor's connect() a socket is created only by the reconnect timer,
\* and a reconnect timer is set only by an unclean close.
C20_OneTransport ==
    /\ [](/\ oldSockets = 0
          /\ reconnectTimers <= 1
          /\ reconnectTimers = 1 => readyState = "CLOSED")
    /\ [][(out'.event = "connect" \/ (readyState # "CONNECTING" /\ readyState' = "CONNECTING")) =>
            /\ reconnectTimer
            /\ readyState = "CLOSED" /\ reconnectTimers = 1]_vars
    /\ [][reconnectTimers' > reconnectTimers => onclose(FALSE)]_vars

\* The second reconnect timer has fired and created the third socket.
C20_Witness ==
    /\ out.event = "connect" /\ readyState = "CONNECTING"
    /\ reconnectAttempt = 2 /\ reconnectTimers = 0 /\ oldSockets = 0

====
